---- MODULE Spec2Model ----
(***************************************************************************)
(* Judging dashboard: the score store behind /api/scores (relational       *)
(* backend, src/src/app/api/scores/route.ts) and the admin ranking         *)
(* (src/src/app/admin/page.tsx).                                           *)
(*                                                                         *)
(* A POST handler is a sequence of awaits; every await that touches the    *)
(* table is one atomic step of the model, so two handlers interleave at    *)
(* the granularity of single table operations.                             *)
(***************************************************************************)
EXTENDS Integers, Sequences, FiniteSets, TLC

VARIABLES
    hasTeamNameCol, \* schema of the scores table: does it have a team_name column
    table,          \* the scores table: a set of rows, unique on (team_id, judge_email)
    reqs,           \* the POST handlers in flight, one per handler instance
    nPosts,         \* number of POST requests that passed validation (also the clock)
    last,           \* the response sent by the step just taken, if it sent one
    envOk,          \* the deployment has SUPABASE_URL and SUPABASE_SERVICE_ROLE_KEY set
    file,           \* data/scores.json, the store of the file backend
    fileReqs,       \* the handlers of the file backend, one per handler instance
    dash            \* the state of the Dashboard component in one judge's browser

vars == <<hasTeamNameCol, table, reqs, nPosts, last, envOk, file, fileReqs, dash>>

----------------------------------------------------------------------------
(* Bounds *)

\* POST requests that may reach the storage layer in one behaviour of Spec
MaxPosts == 2
\* the same for AdminSpec, whose requests are those of one team's judging
MaxSaves == 3
\* the same for IntakeSpec, under which every request is tried at every step
MaxIntake == 1
\* most rows in the table the ranking is computed from, in RankSpec
MaxRows == 3
\* POST requests that may reach the storage layer in one behaviour of StoreSpec
MaxWrites == 2
\* POST requests that may reach the file in one behaviour of FileSpec
MaxFilePosts == 2
\* the same for FileSerialSpec, which serves one request at a time
MaxSerialPosts == 3
\* the same for LegacySpec, the first version of the file route
MaxLegacyPosts == 2
\* the same for SessionSpec, the sessions by what they carry
MaxSessionPosts == 2
\* the same for KeySpec, the requests that name their team by teamName
MaxKeyPosts == 2
\* the same for DashSpec, the dashboard of one judge
MaxDashSaves == 1
\* edits of the score form (setField, setNotes) in DashSpec
MaxEdits == 2

----------------------------------------------------------------------------
(* JavaScript values *)

\* undefined / a key missing from the JSON body
Absent == "<undefined>"

Truthy(s) == s /= Absent /\ s /= ""

\* a || b
OrElse(a, b) == IF Truthy(a) THEN a ELSE b

\* a ?? b
Coalesce(a, b) == IF a /= Absent THEN a ELSE b

\* String.prototype.toLowerCase on the strings of the model
toLowerCase(s) ==
    CASE s = "J1@X.IO" -> "j1@x.io"
      [] s = "Kay"     -> "kay"
      [] s = "Jay"     -> "jay"
      [] OTHER         -> s

Categories ==
    {"problemRelevance", "technicalFeasibility", "statementAlignment",
     "creativity", "presentation", "googleTechUse"}

----------------------------------------------------------------------------
(* Inputs *)

NoSession == [user |-> FALSE, email |-> Absent, name |-> Absent]
SJ1 == [user |-> TRUE, email |-> "J1@X.IO", name |-> "Jay"]
SJ2 == [user |-> TRUE, email |-> "j2@x.io", name |-> "Kay"]

Sessions == {NoSession, SJ1, SJ2}

Scores(v, n, t) ==
    [present |-> TRUE,
     problemRelevance |-> v[1], technicalFeasibility |-> v[2],
     statementAlignment |-> v[3], creativity |-> v[4],
     presentation |-> v[5], googleTechUse |-> v[6],
     notes |-> n, updatedAt |-> t]

\* body.scores missing
NoScores == [Scores(<<0, 0, 0, 0, 0, 0>>, Absent, Absent) EXCEPT !.present = FALSE]

All5  == Scores(<<5, 5, 5, 5, 5, 5>>, "solid", "2024-01-01T10:00:00Z")
All10 == Scores(<<10, 10, 10, 10, 10, 10>>, Absent, Absent)
All15 == Scores(<<15, 15, 15, 15, 15, 15>>, "", "2024-01-01T12:00:00Z")
\* what a client other than the dashboard's sliders can send
OutOfRange == Scores(<<16, 0 - 1, 15, 0, 7, 99>>, "raw", Absent)

ScoresIn == {NoScores, All5, OutOfRange}

\* (an empty-string teamId, which the body check treats as missing and the
\* payload keeps as the key, is not among the inputs of these specifications)
TeamIdsIn == {Absent, "T1"}
TeamNamesIn == {Absent, "Alpha"}

Bodies == [teamId : TeamIdsIn, teamName : TeamNamesIn, scores : ScoresIn]

AdminKeysIn == {"", "secret", "guess"}
\* process.env.ADMIN_KEY
ADMIN_KEY == "secret"

Slots == {"h1", "h2"}

----------------------------------------------------------------------------
(* route.ts: helpers *)

toEntry(row) ==
    [problemRelevance |-> row.problem_relevance,
     technicalFeasibility |-> row.technical_feasibility,
     statementAlignment |-> row.statement_alignment,
     creativity |-> row.creativity,
     presentation |-> row.presentation,
     googleTechUse |-> row.google_tech_use,
     notes |-> OrElse(row.notes, ""),
     updatedAt |-> row.updated_at,
     updatedBy |-> OrElse(IF row.judge_email = Absent THEN Absent
                          ELSE toLowerCase(row.judge_email), row.judge_email),
     updatedByName |-> row.judge_name]

\* the key taken from the team name first
storeKeyByName(row) == Coalesce(row.team_name, Coalesce(row.team_id, "unknown-team"))

\* line 29
storeKey(row) == Coalesce(row.team_id, Coalesce(row.team_name, "unknown-team"))

EmptyStore == [k \in {} |-> {}]

RECURSIVE rowsToStoreFrom(_, _)
rowsToStoreFrom(byTeam, rows) ==
    IF rows = <<>> THEN byTeam
    ELSE LET row == Head(rows)
             entry == toEntry(row)
             key == storeKey(row)
             judges == IF key \in DOMAIN byTeam
                       THEN Append(byTeam[key].judges, entry)
                       ELSE <<entry>>
             rec == entry @@ [judges |-> judges]
         IN rowsToStoreFrom([k \in (DOMAIN byTeam) \cup {key} |->
                                IF k = key THEN rec ELSE byTeam[k]],
                            Tail(rows))

rowsToStore(rows) == rowsToStoreFrom(EmptyStore, rows)

----------------------------------------------------------------------------
(* The scores table *)

\* the orders in which a select without ORDER BY may return a set of rows
Orderings(S) ==
    {s \in [1..Cardinality(S) -> S] : \A i, j \in 1..Cardinality(S) : s[i] = s[j] => i = j}

\* the select without its filter
SelectEveryJudge(judge) == table

\* .select("*").eq("judge_email", judge)
SelectByJudge(judge) == {r \in table : r.judge_email = judge}

\* the row as the table stores it: a column the table lacks is not stored
StoredRow(payload) ==
    IF hasTeamNameCol THEN payload ELSE [payload EXCEPT !.team_name = Absent]

\* an insert that never replaces
upsertInsertOnly(t, payload) == t \cup {StoredRow(payload)}

\* an upsert with onConflict: "team_id"
upsertOnTeam(t, payload) ==
    {r \in t : r.team_id /= payload.team_id} \cup {StoredRow(payload)}

\* an upsert with onConflict: "judge_email"
upsertOnJudge(t, payload) ==
    {r \in t : r.judge_email /= payload.judge_email} \cup {StoredRow(payload)}

\* .upsert(payload, { onConflict: "team_id,judge_email" })
upsert(t, payload) ==
    {r \in t : ~(r.team_id = payload.team_id /\ r.judge_email = payload.judge_email)}
        \cup {StoredRow(payload)}

\* the table rejects a payload naming a column it does not have (code 42703)
UnknownColumn(payload) == ~hasTeamNameCol /\ payload.team_name /= Absent

----------------------------------------------------------------------------
(* route.ts: POST *)

userEmail(session) == OrElse(session.email, OrElse(session.name, "unknown"))
userName(session) == OrElse(session.name, OrElse(session.email, "unknown"))
userEmailLower(session) == toLowerCase(userEmail(session))

teamKey(body) == OrElse(body.teamName, OrElse(body.teamId, "unknown"))

NowIso(n) == "now-" \o ToString(n)

\* the payload stamped by the server whatever the request carries
payloadBaseStampsNow(session, body, now) ==
    [team_id |-> Coalesce(body.teamId, teamKey(body)),
     team_name |-> body.teamName,
     judge_email |-> userEmailLower(session),
     judge_name |-> userName(session),
     problem_relevance |-> body.scores.problemRelevance,
     technical_feasibility |-> body.scores.technicalFeasibility,
     statement_alignment |-> body.scores.statementAlignment,
     creativity |-> body.scores.creativity,
     presentation |-> body.scores.presentation,
     google_tech_use |-> body.scores.googleTechUse,
     notes |-> OrElse(body.scores.notes, ""),
     updated_at |-> NowIso(now)]

\* lines 73-86
payloadBase(session, body, now) ==
    [team_id |-> Coalesce(body.teamId, teamKey(body)),
     team_name |-> body.teamName,
     judge_email |-> userEmailLower(session),
     judge_name |-> userName(session),
     problem_relevance |-> body.scores.problemRelevance,
     technical_feasibility |-> body.scores.technicalFeasibility,
     statement_alignment |-> body.scores.statementAlignment,
     creativity |-> body.scores.creativity,
     presentation |-> body.scores.presentation,
     google_tech_use |-> body.scores.googleTechUse,
     notes |-> OrElse(body.scores.notes, ""),
     updated_at |-> Coalesce(body.scores.updatedAt, NowIso(now))]

payloadWithName(session, body, now) ==
    [payloadBase(session, body, now) EXCEPT
        !.team_name = Coalesce(body.teamName, teamKey(body))]

Idle == [pc |-> "idle", session |-> NoSession,
         body |-> [teamId |-> Absent, teamName |-> Absent, scores |-> NoScores],
         now |-> 0]

Response(kind, session, status, store) ==
    [kind |-> kind, session |-> session, status |-> status, store |-> store,
     rankings |-> <<>>]

\* the step sent no response
NoResponse == Response("NONE", NoSession, 0, EmptyStore)

\* the handler without its session check
UnauthorizedNever(session) == FALSE

\* the body check with && for its ||
BadRequestAllMissing(body) ==
    ~Truthy(body.teamId) /\ ~Truthy(body.teamName) /\ ~body.scores.present

\* lines 56-59: the session check
Unauthorized(session) == ~session.user

\* lines 61-64: the body check
BadRequest(body) ==
    (~Truthy(body.teamId) /\ ~Truthy(body.teamName)) \/ ~body.scores.present

\* the handler instance that takes the next request: which instance serves a
\* request makes no difference to it, so the first idle one is taken
FreeSlot ==
    IF reqs["h1"].pc = "idle" THEN "h1"
    ELSE IF reqs["h2"].pc = "idle" THEN "h2" ELSE "none"

\* lines 55-71: up to the first await on the table. supabaseServer() (line 66)
\* throws when the deployment lacks its environment, which the framework
\* answers with status 500
PostStart(slot, session, body, limit) ==
    /\ slot = FreeSlot
    /\ IF Unauthorized(session)
       THEN /\ last' = Response("POST", session, 401, EmptyStore)
            /\ UNCHANGED <<reqs, nPosts>>
       ELSE IF BadRequest(body)
       THEN /\ last' = Response("POST", session, 400, EmptyStore)
            /\ UNCHANGED <<reqs, nPosts>>
       ELSE IF ~envOk
       THEN /\ last' = Response("POST", session, 500, EmptyStore)
            /\ UNCHANGED <<reqs, nPosts>>
       ELSE /\ nPosts < limit
            /\ nPosts' = nPosts + 1
            /\ reqs' = [reqs EXCEPT ![slot] =
                            [pc |-> "upsert", session |-> session,
                             body |-> body, now |-> nPosts + 1]]
            /\ last' = NoResponse
    /\ UNCHANGED <<hasTeamNameCol, envOk, file, fileReqs, table>>

\* the handler answers 500 with the table untouched by this step
Fail500(slot) ==
    /\ last' = Response("POST", reqs[slot].session, 500, EmptyStore)
    /\ reqs' = [reqs EXCEPT ![slot] = Idle]
    /\ UNCHANGED table

\* line 94: tryUpsert(payloadWithName), and the branch of lines 95-98 on its error
PostUpsert(slot, fault) ==
    LET r == reqs[slot]
        payload == payloadWithName(r.session, r.body, r.now)
    IN /\ r.pc = "upsert"
       /\ IF fault
          THEN Fail500(slot)
          ELSE IF UnknownColumn(payload)
          THEN /\ reqs' = [reqs EXCEPT ![slot].pc = "retry"]
               /\ last' = NoResponse
               /\ UNCHANGED table
          ELSE /\ table' = upsert(table, payload)
               /\ reqs' = [reqs EXCEPT ![slot].pc = "select"]
               /\ last' = NoResponse
       /\ UNCHANGED <<hasTeamNameCol, envOk, file, fileReqs, nPosts>>

\* a handler that starts over when its second attempt fails
PostRetryAgain(slot, fault) ==
    LET r == reqs[slot]
        payload == payloadBase(r.session, r.body, r.now)
    IN /\ r.pc = "retry"
       /\ IF fault \/ UnknownColumn(payload)
          THEN /\ reqs' = [reqs EXCEPT ![slot].pc = "upsert"]
               /\ last' = NoResponse
               /\ UNCHANGED table
          ELSE /\ table' = upsert(table, payload)
               /\ reqs' = [reqs EXCEPT ![slot].pc = "select"]
               /\ last' = NoResponse
       /\ UNCHANGED <<hasTeamNameCol, envOk, file, fileReqs, nPosts>>

\* line 96: tryUpsert(payloadBase), and line 98 on its error
PostRetry(slot, fault) ==
    LET r == reqs[slot]
        payload == payloadBase(r.session, r.body, r.now)
    IN /\ r.pc = "retry"
       /\ IF fault \/ UnknownColumn(payload)
          THEN Fail500(slot)
          ELSE /\ table' = upsert(table, payload)
               /\ reqs' = [reqs EXCEPT ![slot].pc = "select"]
               /\ last' = NoResponse
       /\ UNCHANGED <<hasTeamNameCol, envOk, file, fileReqs, nPosts>>

\* lines 100-103: the judge-scoped select and the response
PostSelect(slot, fault) ==
    LET r == reqs[slot]
    IN /\ r.pc = "select"
       /\ IF fault
          THEN Fail500(slot)
          ELSE /\ \E rows \in Orderings(SelectByJudge(userEmailLower(r.session))) :
                     last' = Response("POST", r.session, 200, rowsToStore(rows))
               /\ reqs' = [reqs EXCEPT ![slot] = Idle]
               /\ UNCHANGED table
       /\ UNCHANGED <<hasTeamNameCol, envOk, file, fileReqs, nPosts>>

----------------------------------------------------------------------------
(* route.ts: GET *)

judgeKeyRaw(session) == OrElse(session.email, session.name)

\* a GET that queries the table before it looks at the session
GETQueriesFirst(session, fault) ==
    /\ IF ~envOk \/ fault
       THEN last' = Response("GET", session, 500, EmptyStore)
       ELSE IF ~session.user \/ ~Truthy(judgeKeyRaw(session))
       THEN last' = Response("GET", session, 200, EmptyStore)
       ELSE \E rows \in Orderings(SelectByJudge(toLowerCase(judgeKeyRaw(session)))) :
                last' = Response("GET", session, 200, rowsToStore(rows))
    /\ UNCHANGED <<hasTeamNameCol, envOk, file, fileReqs, table, reqs, nPosts>>

\* lines 37-53. supabaseServer() (line 39) is called before the session is
\* looked at, and throws when the deployment lacks its environment
GET(session, fault) ==
    /\ IF ~envOk
       THEN last' = Response("GET", session, 500, EmptyStore)
       ELSE IF ~session.user \/ ~Truthy(judgeKeyRaw(session))
       THEN last' = Response("GET", session, 200, EmptyStore)
       ELSE IF fault
       THEN last' = Response("GET", session, 500, EmptyStore)
       ELSE \E rows \in Orderings(SelectByJudge(toLowerCase(judgeKeyRaw(session)))) :
                last' = Response("GET", session, 200, rowsToStore(rows))
    /\ UNCHANGED <<hasTeamNameCol, envOk, file, fileReqs, table, reqs, nPosts>>

----------------------------------------------------------------------------
(* admin/page.tsx: the ranking *)

\* row.<column>, undefined when the row has no such column
Col(row, c) == IF c \in DOMAIN row THEN row[c] ELSE Absent

getTeamKey(row) ==
    OrElse(Col(row, "team_id"),
    OrElse(Col(row, "team_name"),
    OrElse(Col(row, "team"),
    OrElse(Col(row, "teamId"),
    OrElse(Col(row, "teamid"), "Unknown Team")))))

getTeamLabel(row, key) ==
    OrElse(Col(row, "team_name"),
    OrElse(Col(row, "team"),
    OrElse(Col(row, "teamId"),
    OrElse(Col(row, "teamid"), key))))

\* the sum without its last term
rowScoreOfFive(row) ==
    row.problem_relevance + row.technical_feasibility + row.statement_alignment
        + row.creativity + row.presentation

\* the columns are integers, on which Number() changes nothing and
\* Number.isFinite holds
rowScore(row) ==
    row.problem_relevance + row.technical_feasibility + row.statement_alignment
        + row.creativity + row.presentation + row.google_tech_use

\* the reducer with = for its += on total
reducerAssigns(acc, row) ==
    LET key == getTeamKey(row)
        label == getTeamLabel(row, key)
        score == rowScore(row)
        fresh == [teamId |-> key, teamName |-> label, total |-> 0, judgesCount |-> 0]
        isNew == \A i \in 1..Len(acc.keys) : acc.keys[i] /= key
        cur == IF isNew THEN fresh ELSE acc.rows[key]
        upd == [cur EXCEPT !.total = score, !.judgesCount = @ + 1]
    IN [keys |-> IF isNew THEN Append(acc.keys, key) ELSE acc.keys,
        rows |-> [k \in (DOMAIN acc.rows) \cup {key} |->
                     IF k = key THEN upd ELSE acc.rows[k]]]

\* lines 82-91: the reducer. acc is the object under construction: its keys in
\* insertion order, and the RankingRow under each key
reducer(acc, row) ==
    LET key == getTeamKey(row)
        label == getTeamLabel(row, key)
        score == rowScore(row)
        fresh == [teamId |-> key, teamName |-> label, total |-> 0, judgesCount |-> 0]
        isNew == \A i \in 1..Len(acc.keys) : acc.keys[i] /= key
        cur == IF isNew THEN fresh ELSE acc.rows[key]
        upd == [cur EXCEPT !.total = @ + score, !.judgesCount = @ + 1]
    IN [keys |-> IF isNew THEN Append(acc.keys, key) ELSE acc.keys,
        rows |-> [k \in (DOMAIN acc.rows) \cup {key} |->
                     IF k = key THEN upd ELSE acc.rows[k]]]

RECURSIVE reduce(_, _)
reduce(acc, rows) ==
    IF rows = <<>> THEN acc ELSE reduce(reducer(acc, Head(rows)), Tail(rows))

\* Object.values: the values in key insertion order
ObjectValues(acc) == [i \in 1..Len(acc.keys) |-> acc.rows[acc.keys[i]]]

\* the sort with the comparator a.total - b.total
RECURSIVE insertAscending(_, _)
insertAscending(sorted, x) ==
    IF sorted = <<>> THEN <<x>>
    ELSE IF x.total - Head(sorted).total < 0
         THEN <<x>> \o sorted
         ELSE <<Head(sorted)>> \o insertAscending(Tail(sorted), x)

\* Array.prototype.sort with (a, b) => b.total - a.total: a stable sort,
\* written as insertion of each element after the elements it does not beat
RECURSIVE insertSorted(_, _)
insertSorted(sorted, x) ==
    IF sorted = <<>> THEN <<x>>
    ELSE IF Head(sorted).total - x.total < 0
         THEN <<x>> \o sorted
         ELSE <<Head(sorted)>> \o insertSorted(Tail(sorted), x)

RECURSIVE sortByTotal(_, _)
sortByTotal(done, rest) ==
    IF rest = <<>> THEN done
    ELSE sortByTotal(insertSorted(done, Head(rest)), Tail(rest))

\* the reduction without its sort
RankingsUnsorted(rows) ==
    ObjectValues(reduce([keys |-> <<>>, rows |-> EmptyStore], rows))

\* lines 81-92
Rankings(rows) ==
    sortByTotal(<<>>, ObjectValues(reduce([keys |-> <<>>, rows |-> EmptyStore], rows)))

\* the rendered ranking table
Page(rows) == [Response("ADMIN", NoSession, 200, EmptyStore) EXCEPT !.rankings = rows]

\* lines 44-92: the page, behind the admin key
AdminPage(key, fault) ==
    /\ IF ADMIN_KEY = "" \/ key /= ADMIN_KEY
       THEN last' = Response("ADMIN", NoSession, 401, EmptyStore)
       ELSE IF ~envOk \/ fault
       THEN last' = Response("ADMIN", NoSession, 500, EmptyStore)
       ELSE \E rows \in Orderings(table) : last' = Page(Rankings(rows))
    /\ UNCHANGED <<hasTeamNameCol, envOk, dash, file, fileReqs, table, reqs, nPosts>>

----------------------------------------------------------------------------
(* The file backend: the route over data/scores.json (src/unnamed/part_001) *)

\* the keys of an entry whose value may be undefined
OptionalKeys == {"notes", "updatedAt", "updatedBy", "updatedByName"}

\* JSON.stringify leaves out the keys whose value is undefined
StringifyEntry(e) ==
    [k \in {x \in DOMAIN e : x \notin OptionalKeys \/ e[x] /= Absent} |-> e[k]]

StringifyRecord(rec) ==
    LET own == StringifyEntry([k \in (DOMAIN rec) \ {"judges"} |-> rec[k]])
    IN IF "judges" \in DOMAIN rec
       THEN [judges |-> [i \in 1..Len(rec.judges) |-> StringifyEntry(rec.judges[i])]]
                @@ own
       ELSE own

\* JSON.stringify(store, null, 2): the text, by the JSON value it denotes
JSONstringify(store) ==
    [valid |-> TRUE, json |-> [t \in DOMAIN store |-> StringifyRecord(store[t])]]

\* the text a failed write may leave behind, which JSON.parse rejects
TornText == [valid |-> FALSE, json |-> EmptyStore]

\* JSON.parse(data) of a text it accepts
JSONparse(text) == text.json

\* STORE_PATH names no file
NoFile == [exists |-> FALSE, data |-> TornText]

FileOf(text) == [exists |-> TRUE, data |-> text]

\* ...body.scores: the keys the parsed body has
SpreadScores(scores) ==
    [k \in {x \in Categories \cup {"notes", "updatedAt"} :
                x \in Categories \/ scores[x] /= Absent} |-> scores[k]]

\* lines 48-53, with undefined for updatedAt when the body has none
fileEntryUnstamped(session, body, now) ==
    [updatedBy |-> userEmail(session),
     updatedByName |-> userName(session),
     updatedAt |-> body.scores.updatedAt]
        @@ SpreadScores(body.scores)

\* lines 48-53
fileEntry(session, body, now) ==
    [updatedBy |-> userEmail(session),
     updatedByName |-> userName(session),
     updatedAt |-> Coalesce(body.scores.updatedAt, NowIso(now))]
        @@ SpreadScores(body.scores)

\* lines 44-45
priorJudges(store, teamId) ==
    IF teamId \notin DOMAIN store THEN <<>>
    ELSE IF "judges" \in DOMAIN store[teamId] THEN store[teamId].judges
    ELSE <<store[teamId]>>

IsOther(j, session) == Col(j, "updatedBy") /= userEmail(session)

\* the prior judges without the filter
filteredNone(store, session, body) == priorJudges(store, body.teamId)

\* line 46
filtered(store, session, body) ==
    SelectSeq(priorJudges(store, body.teamId), LAMBDA j : IsOther(j, session))

\* the merge made over the file as it is when the write is made, not over the
\* store read before it
mergedStoreFresh(store, session, body, now) ==
    LET fresh == IF file.exists /\ file.data.valid THEN JSONparse(file.data) ELSE store
        entry == fileEntry(session, body, now)
        judges == Append(filtered(fresh, session, body), entry)
        rec == [judges |-> judges] @@ entry
    IN [t \in (DOMAIN fresh) \cup {body.teamId} |->
            IF t = body.teamId THEN rec ELSE fresh[t]]

\* lines 55-56: the store after the assignment to store[body.teamId]
mergedStore(store, session, body, now) ==
    LET entry == fileEntry(session, body, now)
        judges == Append(filtered(store, session, body), entry)
        rec == [judges |-> judges] @@ entry
    IN [t \in (DOMAIN store) \cup {body.teamId} |->
            IF t = body.teamId THEN rec ELSE store[t]]

FileScoresIn == {NoScores, All5, All10}
FileTeamIdsIn == {Absent, "T1"}
FileBodies == [teamId : FileTeamIdsIn, scores : FileScoresIn]

FileIdle ==
    [pc |-> "idle", method |-> "NONE", session |-> NoSession,
     body |-> [teamId |-> Absent, scores |-> NoScores],
     now |-> 0, store |-> EmptyStore, status |-> 0, error |-> ""]

\* the handler instance that takes the next request: the first one that is
\* not serving a request. An instance keeps the request it served last, the
\* store it read for it and its outcome until it takes another
FreeFileSlot ==
    IF fileReqs["h1"].pc \in {"idle", "done"} THEN "h1"
    ELSE IF fileReqs["h2"].pc \in {"idle", "done"} THEN "h2" ELSE "none"

FileDone(slot, status, error) ==
    fileReqs' = [fileReqs EXCEPT ![slot].pc = "done", ![slot].status = status,
                                 ![slot].error = error]

\* lines 35-38: the body check of the file route
FileBadRequest(body) == ~Truthy(body.teamId) \/ ~body.scores.present

\* lines 29-41: POST up to the await of ensureStore
FilePostStart(slot, session, body, limit) ==
    /\ slot = FreeFileSlot
    /\ IF Unauthorized(session)
       THEN /\ last' = Response("FILE_POST", session, 401, EmptyStore)
            /\ UNCHANGED <<fileReqs, nPosts>>
       ELSE IF FileBadRequest(body)
       THEN /\ last' = Response("FILE_POST", session, 400, EmptyStore)
            /\ UNCHANGED <<fileReqs, nPosts>>
       ELSE /\ nPosts < limit
            /\ nPosts' = nPosts + 1
            /\ fileReqs' = [fileReqs EXCEPT ![slot] =
                                [pc |-> "read", method |-> "POST", session |-> session,
                                 body |-> body, now |-> nPosts + 1,
                                 store |-> EmptyStore, status |-> 0, error |-> ""]]
            /\ last' = NoResponse
    /\ UNCHANGED <<hasTeamNameCol, envOk, dash, table, reqs, file>>

\* lines 24-25: GET up to the await of ensureStore; it looks at no session
FileGetStart(slot) ==
    /\ slot = FreeFileSlot
    /\ fileReqs' = [fileReqs EXCEPT ![slot] = [FileIdle EXCEPT !.pc = "read", !.method = "GET"]]
    /\ last' = NoResponse
    /\ UNCHANGED <<hasTeamNameCol, envOk, dash, table, reqs, nPosts, file>>

\* the handler throws, which the framework answers with status 500
FileFail(slot, error) ==
    /\ last' = Response(IF fileReqs[slot].method = "GET" THEN "FILE_GET" ELSE "FILE_POST",
                        fileReqs[slot].session, 500, EmptyStore)
    /\ FileDone(slot, 500, error)

\* ensureStore has returned store: GET answers with it (line 26), POST goes on
\* to its write
Loaded(slot, store) ==
    IF fileReqs[slot].method = "GET"
    THEN /\ last' = Response("FILE_GET", fileReqs[slot].session, 200, store)
         /\ FileDone(slot, 200, "")
    ELSE /\ last' = NoResponse
         /\ fileReqs' = [fileReqs EXCEPT ![slot].pc = "write", ![slot].store = store]

\* an ensureStore for which ENOENT is an error like any other
IsENOENTNever(err) == FALSE

\* line 15
IsENOENT(err) == err = "ENOENT"

\* lines 12-13: what readFile and JSON.parse throw, "" if nothing. fault is a
\* failure of the read other than the absence of the file
ReadError(fault) ==
    IF fault THEN "EIO"
    ELSE IF ~file.exists THEN "ENOENT"
    ELSE IF ~file.data.valid THEN "SyntaxError"
    ELSE ""

\* lines 11-15, 20: the try block and the branch of the catch
ensureStoreRead(slot, fault) ==
    LET err == ReadError(fault)
    IN /\ fileReqs[slot].pc = "read"
       /\ IF err = ""
          THEN Loaded(slot, JSONparse(file.data))
          ELSE IF IsENOENT(err)
          THEN /\ fileReqs' = [fileReqs EXCEPT ![slot].pc = "init"]
               /\ last' = NoResponse
          ELSE FileFail(slot, err)
       /\ UNCHANGED <<hasTeamNameCol, envOk, dash, table, reqs, nPosts, file>>

\* a writeFile that fails leaves the file as it was, or truncated
FailedWrite(torn) == file' = IF torn THEN FileOf(TornText) ELSE file

\* lines 16-18: mkdir and writeFile of the empty store
ensureStoreInit(slot, fault, torn) ==
    /\ fileReqs[slot].pc = "init"
    /\ IF fault
       THEN FailedWrite(torn) /\ FileFail(slot, "EIO")
       ELSE /\ file' = FileOf(JSONstringify(EmptyStore))
            /\ Loaded(slot, EmptyStore)
    /\ UNCHANGED <<hasTeamNameCol, envOk, dash, table, reqs, nPosts>>

\* lines 44-59: the merge, writeFile and the response
FileWrite(slot, fault, torn) ==
    LET r == fileReqs[slot]
        store == mergedStore(r.store, r.session, r.body, r.now)
    IN /\ r.pc = "write"
       /\ IF fault
          THEN FailedWrite(torn) /\ FileFail(slot, "EIO")
          ELSE /\ file' = FileOf(JSONstringify(store))
               /\ last' = Response("FILE_POST", r.session, 200, store)
               /\ FileDone(slot, 200, "")
       /\ UNCHANGED <<hasTeamNameCol, envOk, dash, table, reqs, nPosts>>

----------------------------------------------------------------------------
(* components/dashboard.tsx: the Dashboard component *)

\* null
Null == "<null>"

\* the teams prop
Teams == <<[id |-> "T1", teamName |-> "Alpha"], [id |-> "T2", teamName |-> "Beta"]>>

\* lines 35-44; reading updatedBy or updatedByName of it gives undefined
EMPTY_SCORES ==
    [problemRelevance |-> 0, technicalFeasibility |-> 0, statementAlignment |-> 0,
     creativity |-> 0, presentation |-> 0, googleTechUse |-> 0,
     notes |-> "", updatedAt |-> "",
     updatedBy |-> Absent, updatedByName |-> Absent]

\* lines 52-55 on mount, for a browser with the given session. loaded: the
\* fetch of loadScores has been answered; nEdits counts the edits of the form
Mount(session) ==
    [session |-> session, activeTeamId |-> Teams[1].id, store |-> EmptyStore,
     isSaving |-> FALSE, error |-> Null, loaded |-> FALSE, nEdits |-> 0]

\* no dashboard is open
Unmounted == Mount(NoSession)

\* line 60: the email as the session gives it, not lower-cased
judgeKey(session) == OrElse(session.email, OrElse(session.name, Null))

\* lines 146 and 377: judgeKey || "unknown"
updatedByOf(session) == OrElse(session.email, OrElse(session.name, "unknown"))

\* lines 147 and 378
updatedByNameOf(session) == OrElse(session.name, OrElse(session.email, "unknown"))

\* line 66, with a team without a name for null (activeTeam?.teamName)
activeTeam(d) ==
    LET found == {i \in 1..Len(Teams) : Teams[i].id = d.activeTeamId}
    IN IF found = {} THEN [id |-> Null, teamName |-> Absent] ELSE Teams[CHOOSE i \in found : \A j \in found : i <= j]

\* new Date().toISOString() in the browser: the clock ticks with every
\* request the API accepts
ClientNow == NowIso(nPosts)

\* lines 105-114
currentEntry(d) ==
    LET key == judgeKey(d.session)
    IN IF d.activeTeamId = Null THEN EMPTY_SCORES
       ELSE IF d.activeTeamId \notin DOMAIN d.store THEN EMPTY_SCORES
       ELSE LET teamStore == d.store[d.activeTeamId]
                judges == teamStore.judges
                found == {i \in 1..Len(judges) : judges[i].updatedBy = key}
            IN IF key /= Null /\ found /= {}
               THEN judges[CHOOSE i \in found : \A j \in found : i <= j]
               ELSE IF key /= Null /\ teamStore.updatedBy = key
               THEN teamStore
               ELSE EMPTY_SCORES

\* Math.max(0, Math.min(15, value))
Clamp(value) == IF value < 0 THEN 0 ELSE IF value > 15 THEN 15 ELSE value

\* lines 149-158 and 169-178: the updater passed to setStore
editedStore(d, next) ==
    IF d.activeTeamId = Null THEN d.store
    ELSE LET judges == IF d.activeTeamId \in DOMAIN d.store
                       THEN d.store[d.activeTeamId].judges ELSE <<>>
             others == SelectSeq(judges, LAMBDA j : j.updatedBy /= judgeKey(d.session))
         IN [t \in (DOMAIN d.store) \cup {d.activeTeamId} |->
                IF t = d.activeTeamId
                THEN [judges |-> Append(others, next)] @@ next
                ELSE d.store[t]]

\* the tuple every step of the dashboard leaves alone
serverVars == <<hasTeamNameCol, table, reqs, nPosts, envOk, file, fileReqs>>

\* line 263
setActiveTeamId(id) ==
    /\ id /= dash.activeTeamId
    /\ dash' = [dash EXCEPT !.activeTeamId = id]
    /\ last' = NoResponse
    /\ UNCHANGED serverVars

\* lines 141-159
setField(category, value) ==
    LET next == [currentEntry(dash) EXCEPT
                     ![category] = Clamp(value),
                     !.updatedAt = ClientNow,
                     !.updatedBy = updatedByOf(dash.session),
                     !.updatedByName = updatedByNameOf(dash.session)]
    IN /\ dash.nEdits < MaxEdits
       /\ dash' = [dash EXCEPT !.store = editedStore(dash, next),
                               !.nEdits = dash.nEdits + 1]
       /\ last' = NoResponse
       /\ UNCHANGED serverVars

\* lines 161-179
setNotes(value) ==
    LET next == [currentEntry(dash) EXCEPT
                     !.notes = value,
                     !.updatedAt = ClientNow,
                     !.updatedBy = updatedByOf(dash.session),
                     !.updatedByName = updatedByNameOf(dash.session)]
    IN /\ dash.nEdits < MaxEdits
       /\ dash' = [dash EXCEPT !.store = editedStore(dash, next),
                               !.nEdits = dash.nEdits + 1]
       /\ last' = NoResponse
       /\ UNCHANGED serverVars

\* lines 374-381: the entry onSave hands to handleSave
savedEntry(d) ==
    [currentEntry(d) EXCEPT
         !.updatedAt = ClientNow,
         !.updatedBy = updatedByOf(d.session),
         !.updatedByName = updatedByNameOf(d.session)]

\* line 125: the body of the request
saveBody(d) ==
    [teamId |-> d.activeTeamId, teamName |-> activeTeam(d).teamName,
     scores |-> [present |-> TRUE] @@ savedEntry(d)]

\* lines 128-129 and 134
MessageOf(response) == "HTTP " \o ToString(response.status)

\* a handleSave that merges the response into the local store
settledMerging(d, response) ==
    IF response.kind /= "POST" THEN d
    ELSE IF response.status = 200
    THEN [d EXCEPT !.store = response.store @@ d.store, !.isSaving = FALSE]
    ELSE [d EXCEPT !.error = MessageOf(response), !.isSaving = FALSE]

\* lines 127-138: the dashboard after the step of the server, which may have
\* answered the request
settled(d, response) ==
    IF response.kind /= "POST" THEN d
    ELSE IF response.status = 200
    THEN [d EXCEPT !.store = response.store, !.isSaving = FALSE]
    ELSE [d EXCEPT !.error = MessageOf(response), !.isSaving = FALSE]

\* lines 116-126, from the click on Save (line 535: the button is disabled
\* while a save is in flight and when nobody is signed in) to the fetch
handleSave ==
    /\ ~dash.isSaving
    /\ dash.session.user
    /\ dash.activeTeamId /= Null
    /\ Truthy(activeTeam(dash).teamName)
    /\ PostStart(FreeSlot, dash.session, saveBody(dash), MaxDashSaves)
    /\ dash' = settled([dash EXCEPT !.isSaving = TRUE, !.error = Null], last')

\* the API serves the request of the dashboard, and the dashboard takes the
\* response when the step sends it
SaveUpsert(slot, fault) ==
    PostUpsert(slot, fault) /\ dash' = settled(dash, last')

SaveRetry(slot, fault) ==
    PostRetry(slot, fault) /\ dash' = settled(dash, last')

SaveSelect(slot, fault) ==
    PostSelect(slot, fault) /\ dash' = settled(dash, last')

\* lines 68-80: the fetch of the mount effect and setStore on its answer
loadScores(fault) ==
    /\ ~dash.loaded
    /\ GET(dash.session, fault)
    /\ dash' = [dash EXCEPT !.loaded = TRUE,
                            !.store = IF last'.status = 200 THEN last'.store
                                      ELSE dash.store]

\* the judges the dashboard is opened by, and nobody signed in
DashSessions == {NoSession, SJ1, SJ2}

----------------------------------------------------------------------------
(* The service *)

Init ==
    /\ hasTeamNameCol \in BOOLEAN
    /\ table = {}
    /\ reqs = [s \in Slots |-> Idle]
    /\ nPosts = 0
    /\ last = NoResponse
    /\ envOk = TRUE
    /\ file = NoFile
    /\ fileReqs = [s \in Slots |-> FileIdle]
    /\ dash = Unmounted

\* the score API, as any client can call it
Next ==
    \/ \E slot \in Slots, session \in Sessions, body \in Bodies :
           PostStart(slot, session, body, MaxPosts) /\ UNCHANGED dash
    \/ \E slot \in Slots, fault \in BOOLEAN : PostUpsert(slot, fault) /\ UNCHANGED dash
    \/ \E slot \in Slots, fault \in BOOLEAN : PostRetry(slot, fault) /\ UNCHANGED dash
    \/ \E slot \in Slots, fault \in BOOLEAN : PostSelect(slot, fault) /\ UNCHANGED dash
    \/ \E session \in Sessions, fault \in BOOLEAN : GET(session, fault) /\ UNCHANGED dash

Spec == Init /\ [][Next]_vars

\* the same API, for the properties of request intake
IntakeNext ==
    \/ \E slot \in Slots, session \in Sessions, body \in Bodies :
           PostStart(slot, session, body, MaxIntake) /\ UNCHANGED dash
    \/ \E slot \in Slots, fault \in BOOLEAN : PostUpsert(slot, fault) /\ UNCHANGED dash
    \/ \E slot \in Slots, fault \in BOOLEAN : PostRetry(slot, fault) /\ UNCHANGED dash
    \/ \E slot \in Slots, fault \in BOOLEAN : PostSelect(slot, fault) /\ UNCHANGED dash
    \/ \E session \in Sessions, fault \in BOOLEAN : GET(session, fault) /\ UNCHANGED dash

IntakeSpec == Init /\ [][IntakeNext]_vars

\* the judging of one team by the signed-in judges through the dashboard, which
\* sends teamId and teamName, and the admin page over the same table
JudgingBodies == [teamId : {"T1"}, teamName : {"Alpha"}, scores : {All5, All10, All15}]

AdminNext ==
    \/ \E slot \in Slots, session \in {SJ1, SJ2}, body \in JudgingBodies :
           PostStart(slot, session, body, MaxSaves) /\ UNCHANGED dash
    \/ \E slot \in Slots, fault \in BOOLEAN : PostUpsert(slot, fault) /\ UNCHANGED dash
    \/ \E slot \in Slots, fault \in BOOLEAN : PostRetry(slot, fault) /\ UNCHANGED dash
    \/ \E slot \in Slots, fault \in BOOLEAN : PostSelect(slot, fault) /\ UNCHANGED dash
    \/ \E key \in AdminKeysIn, fault \in BOOLEAN : AdminPage(key, fault)

AdminSpec == Init /\ [][AdminNext]_vars

----------------------------------------------------------------------------
(* The ranking as a function of the table: any table the page may find *)

Row(team_id, team_name, session, scores) ==
    [team_id |-> team_id,
     team_name |-> team_name,
     judge_email |-> userEmailLower(session),
     judge_name |-> userName(session),
     problem_relevance |-> scores.problemRelevance,
     technical_feasibility |-> scores.technicalFeasibility,
     statement_alignment |-> scores.statementAlignment,
     creativity |-> scores.creativity,
     presentation |-> scores.presentation,
     google_tech_use |-> scores.googleTechUse,
     notes |-> OrElse(scores.notes, ""),
     updated_at |-> Coalesce(scores.updatedAt, NowIso(0))]

\* rows as this route writes them (with and without the team_name column, under
\* a teamId or under a teamName), and rows without a team_id, which the page
\* provides for
RowsIn ==
    {Row("T1", "Alpha", SJ1, All5),
     Row("T1", "Alpha", SJ2, All10),
     Row("T2", Absent, SJ1, All15),
     Row("T2", Absent, SJ2, All5),
     Row("", "Beta", SJ1, All10),
     Row("Beta", "Beta", SJ2, All5),
     Row(Absent, Absent, SJ1, OutOfRange)}

RankInit ==
    /\ hasTeamNameCol = TRUE
    /\ table \in {t \in SUBSET RowsIn : Cardinality(t) <= MaxRows}
    /\ reqs = [s \in Slots |-> Idle]
    /\ nPosts = 0
    /\ last = NoResponse
    /\ envOk = TRUE
    /\ file = NoFile
    /\ fileReqs = [s \in Slots |-> FileIdle]
    /\ dash = Unmounted

RankNext == \E key \in AdminKeysIn, fault \in BOOLEAN : AdminPage(key, fault)

RankSpec == RankInit /\ [][RankNext]_vars

----------------------------------------------------------------------------
(* The score API in any deployment, with or without its environment *)

DeployInit ==
    /\ hasTeamNameCol \in BOOLEAN
    /\ table = {}
    /\ reqs = [s \in Slots |-> Idle]
    /\ nPosts = 0
    /\ last = NoResponse
    /\ envOk \in BOOLEAN
    /\ file = NoFile
    /\ fileReqs = [s \in Slots |-> FileIdle]
    /\ dash = Unmounted

DeploySpec == DeployInit /\ [][IntakeNext]_vars

----------------------------------------------------------------------------
(* The score API and the admin page over one table *)

StoreBodies == [teamId : {"T1", "T2"}, teamName : {Absent, "Alpha"}, scores : {NoScores, All10}]

StoreNext ==
    \/ \E slot \in Slots, session \in Sessions, body \in StoreBodies :
           PostStart(slot, session, body, MaxWrites) /\ UNCHANGED dash
    \/ \E slot \in Slots, fault \in BOOLEAN : PostUpsert(slot, fault) /\ UNCHANGED dash
    \/ \E slot \in Slots, fault \in BOOLEAN : PostRetry(slot, fault) /\ UNCHANGED dash
    \/ \E slot \in Slots, fault \in BOOLEAN : PostSelect(slot, fault) /\ UNCHANGED dash
    \/ \E session \in Sessions, fault \in BOOLEAN : GET(session, fault) /\ UNCHANGED dash
    \/ \E key \in AdminKeysIn, fault \in BOOLEAN : AdminPage(key, fault)

StoreSpec == Init /\ [][StoreNext]_vars

\* the current route under the sessions next-auth can hand it: with an email in
\* mixed case, with a name and no email, with neither
SNameOnly == [user |-> TRUE, email |-> Absent, name |-> "Kay"]
SNoIdentity == [user |-> TRUE, email |-> Absent, name |-> Absent]

SessionsIn == {SJ1, SNameOnly, SNoIdentity}

SessionBodies == [teamId : {"T1"}, teamName : {Absent, "Alpha"}, scores : {All5, All10}]

SessionNext ==
    \/ \E slot \in Slots, session \in SessionsIn, body \in SessionBodies :
           PostStart(slot, session, body, MaxSessionPosts) /\ UNCHANGED dash
    \/ \E slot \in Slots, fault \in BOOLEAN : PostUpsert(slot, fault) /\ UNCHANGED dash
    \/ \E slot \in Slots, fault \in BOOLEAN : PostRetry(slot, fault) /\ UNCHANGED dash
    \/ \E slot \in Slots, fault \in BOOLEAN : PostSelect(slot, fault) /\ UNCHANGED dash
    \/ \E session \in SessionsIn, fault \in BOOLEAN : GET(session, fault) /\ UNCHANGED dash

SessionSpec == Init /\ [][SessionNext]_vars

\* the current route under requests that name their team by teamName, with
\* teamId missing or the empty string
KeyBodies == [teamId : {Absent, ""}, teamName : {"Alpha", "Beta"}, scores : {All5, All10}]

KeyNext ==
    \/ \E slot \in Slots, session \in {SJ1, SJ2}, body \in KeyBodies :
           PostStart(slot, session, body, MaxKeyPosts) /\ UNCHANGED dash
    \/ \E slot \in Slots, fault \in BOOLEAN : PostUpsert(slot, fault) /\ UNCHANGED dash
    \/ \E slot \in Slots, fault \in BOOLEAN : PostRetry(slot, fault) /\ UNCHANGED dash
    \/ \E slot \in Slots, fault \in BOOLEAN : PostSelect(slot, fault) /\ UNCHANGED dash
    \/ \E session \in {SJ1, SJ2}, fault \in BOOLEAN : GET(session, fault) /\ UNCHANGED dash

KeySpec == Init /\ [][KeyNext]_vars

\* the dashboard of one judge over the current route
DashInit ==
    /\ hasTeamNameCol \in BOOLEAN
    /\ table = {}
    /\ reqs = [s \in Slots |-> Idle]
    /\ nPosts = 0
    /\ last = NoResponse
    /\ envOk = TRUE
    /\ file = NoFile
    /\ fileReqs = [s \in Slots |-> FileIdle]
    /\ dash \in {Mount(session) : session \in DashSessions}

DashNext ==
    \/ loadScores(FALSE)
    \/ loadScores(TRUE)
    \/ \E i \in 1..Len(Teams) : setActiveTeamId(Teams[i].id)
    \/ \E value \in {9, 20} : setField("creativity", value)
    \/ setNotes("fine")
    \/ handleSave
    \/ \E slot \in Slots, fault \in BOOLEAN : SaveUpsert(slot, fault)
    \/ \E slot \in Slots, fault \in BOOLEAN : SaveRetry(slot, fault)
    \/ \E slot \in Slots, fault \in BOOLEAN : SaveSelect(slot, fault)

DashSpec == DashInit /\ [][DashNext]_vars

----------------------------------------------------------------------------
(* The first version of the file route (src/unnamed/part_000): one entry per
   team. Its ensureStore, GET and the head of its POST are those of part_001 *)

\* a scores payload that names its author
ScoresBy(scores, who) == [updatedBy |-> who] @@ scores

\* ...body.scores: the keys the parsed body has
SpreadLegacy(scores) ==
    [k \in {x \in Categories \cup {"notes", "updatedAt", "updatedBy"} :
                x \in Categories \/ Col(scores, x) /= Absent} |-> scores[k]]

\* lines 41-45
legacyEntry(session, body, now) ==
    [updatedBy |-> OrElse(Col(body.scores, "updatedBy"),
                          OrElse(session.email, OrElse(session.name, "unknown"))),
     updatedAt |-> Coalesce(body.scores.updatedAt, NowIso(now))]
        @@ SpreadLegacy(body.scores)

\* line 41: the store after the assignment to store[body.teamId]
legacyStore(store, session, body, now) ==
    [t \in (DOMAIN store) \cup {body.teamId} |->
        IF t = body.teamId THEN legacyEntry(session, body, now) ELSE store[t]]

\* lines 40-48: the assignment, writeFile and the response
LegacyWrite(slot, fault, torn) ==
    LET r == fileReqs[slot]
        store == legacyStore(r.store, r.session, r.body, r.now)
    IN /\ r.pc = "write"
       /\ IF fault
          THEN FailedWrite(torn) /\ FileFail(slot, "EIO")
          ELSE /\ file' = FileOf(JSONstringify(store))
               /\ last' = Response("FILE_POST", r.session, 200, store)
               /\ FileDone(slot, 200, "")
       /\ UNCHANGED <<hasTeamNameCol, envOk, dash, table, reqs, nPosts>>

LegacyBodies ==
    [teamId : {Absent, "T1"}, scores : {NoScores, All5, ScoresBy(All10, "j2@x.io")}]

\* one handler instance: every request is served to its end before the next
LegacyNext ==
    \/ \E session \in Sessions, body \in LegacyBodies :
           FilePostStart("h1", session, body, MaxLegacyPosts)
    \/ FileGetStart("h1")
    \/ \E fault \in BOOLEAN : ensureStoreRead("h1", fault)
    \/ \E fault \in BOOLEAN, torn \in BOOLEAN : ensureStoreInit("h1", fault, torn)
    \/ \E fault \in BOOLEAN, torn \in BOOLEAN : LegacyWrite("h1", fault, torn)

----------------------------------------------------------------------------
(* The file backend as a service *)

FileNext ==
    \/ \E slot \in Slots, session \in Sessions, body \in FileBodies :
           FilePostStart(slot, session, body, MaxFilePosts)
    \/ \E slot \in Slots : FileGetStart(slot)
    \/ \E slot \in Slots, fault \in BOOLEAN : ensureStoreRead(slot, fault)
    \/ \E slot \in Slots, fault \in BOOLEAN, torn \in BOOLEAN :
           ensureStoreInit(slot, fault, torn)
    \/ \E slot \in Slots, fault \in BOOLEAN, torn \in BOOLEAN :
           FileWrite(slot, fault, torn)

\* no file yet: the repository ships without data/scores.json
FileSpecInit ==
    /\ hasTeamNameCol = TRUE
    /\ table = {}
    /\ reqs = [s \in Slots |-> Idle]
    /\ nPosts = 0
    /\ last = NoResponse
    /\ envOk = TRUE
    /\ file = NoFile
    /\ fileReqs = [s \in Slots |-> FileIdle]
    /\ dash = Unmounted

FileSpec == FileSpecInit /\ [][FileNext]_vars

\* the same backend with a single handler instance: every request is served to
\* its end before the next is taken
SerialBodies == [teamId : {Absent, "T1", "T2"}, scores : FileScoresIn]

FileSerialNext ==
    \/ \E session \in Sessions, body \in SerialBodies :
           FilePostStart("h1", session, body, MaxSerialPosts)
    \/ FileGetStart("h1")
    \/ \E fault \in BOOLEAN : ensureStoreRead("h1", fault)
    \/ \E fault \in BOOLEAN, torn \in BOOLEAN : ensureStoreInit("h1", fault, torn)
    \/ \E fault \in BOOLEAN, torn \in BOOLEAN : FileWrite("h1", fault, torn)

FileSerialSpec == FileSpecInit /\ [][FileSerialNext]_vars

\* the first version of the file route, one request at a time
LegacySpec == FileSpecInit /\ [][LegacyNext]_vars

----------------------------------------------------------------------------
(* Vocabulary of the properties *)

\* the identity under which a session judges
JudgeOf(session) == toLowerCase(OrElse(session.email, OrElse(session.name, "unknown")))

RowsAt(t, team, judge) == {r \in t : r.team_id = team /\ r.judge_email = judge}

\* the handler in slot completes an upsert in this step
Wrote(slot) ==
    /\ reqs[slot].pc \in {"upsert", "retry"}
    /\ reqs'[slot].pc = "select"

\* the payload of that upsert, as the table stores it
Written(slot) ==
    LET r == reqs[slot]
    IN StoredRow(IF r.pc = "upsert"
                 THEN payloadWithName(r.session, r.body, r.now)
                 ELSE payloadBase(r.session, r.body, r.now))

\* the row of a request that has been upserted and not yet answered
Pending(slot) ==
    LET r == reqs[slot]
    IN StoredRow(IF hasTeamNameCol
                 THEN payloadWithName(r.session, r.body, r.now)
                 ELSE payloadBase(r.session, r.body, r.now))

SubScores(row) ==
    <<row.problem_relevance, row.technical_feasibility, row.statement_alignment,
      row.creativity, row.presentation, row.google_tech_use>>

SixSum(row) == LET v == SubScores(row) IN v[1] + v[2] + v[3] + v[4] + v[5] + v[6]

\* the sum of the six sub-scores over a set of rows
RECURSIVE SumOver(_)
SumOver(S) ==
    IF S = {} THEN 0
    ELSE LET x == CHOOSE y \in S : TRUE IN SixSum(x) + SumOver(S \ {x})

SignedOut == {s \in Sessions : ~s.user}
SignedIn == {s \in Sessions : s.user}

\* the bodies that name no team, or carry no scores
Incomplete ==
    {b \in Bodies :
        \/ (b.teamId \in {Absent, ""} /\ b.teamName \in {Absent, ""})
        \/ ~b.scores.present}

\* every entry of a score view
EntriesOf(store) ==
    UNION {{store[k]} \cup {store[k].judges[i] : i \in 1..Len(store[k].judges)} :
           k \in DOMAIN store}

----------------------------------------------------------------------------
(* C1 *)

\* C1: the table never holds two rows for one (team, judge) pair, and a
\* successful upsert leaves exactly one row for its (team, judge) pair, equal to
\* the values of that write, however the request named the team (teamId,
\* teamName or both).
C1_OneEntryPerTeamJudge ==
    [][/\ \A r1, r2 \in table' :
              (r1.team_id = r2.team_id /\ r1.judge_email = r2.judge_email) => r1 = r2
       /\ \A slot \in Slots :
              Wrote(slot) =>
                  RowsAt(table', Written(slot).team_id, Written(slot).judge_email)
                      = {Written(slot)}]_vars

\* two saves of one judge for one team, with different values, have both been
\* applied, and the table holds one row for the pair
C1_Witness ==
    /\ reqs["h1"].pc = "select" /\ reqs["h2"].pc = "select"
    /\ JudgeOf(reqs["h1"].session) = JudgeOf(reqs["h2"].session)
    /\ Pending("h1").team_id = Pending("h2").team_id
    /\ reqs["h1"].body.teamId = Absent
    /\ reqs["h1"].body.scores /= reqs["h2"].body.scores
    /\ Cardinality(RowsAt(table, Pending("h1").team_id, Pending("h1").judge_email)) = 1

----------------------------------------------------------------------------
(* C2 *)

\* C2: a POST without a session answers 401, starts no handler step on the
\* table and leaves the table as it was; no handler in flight is without a
\* session.
C2_UnauthenticatedRejected ==
    [][/\ \A session \in SignedOut, body \in Bodies :
              PostStart(FreeSlot, session, body, MaxIntake) =>
                  /\ last'.kind = "POST" /\ last'.status = 401
                  /\ table' = table
                  /\ reqs' = reqs
       /\ \A slot \in Slots : reqs'[slot].pc /= "idle" => reqs'[slot].session.user]_vars

\* the rejection, with rows in the table it left alone
C2_Witness ==
    /\ last.kind = "POST" /\ last.status = 401 /\ ~last.session.user
    /\ table /= {}

----------------------------------------------------------------------------
(* C3 *)

\* C3: every entry of every score view sent with status 200, by GET or by
\* POST, carries the identity of the judge who asked.
C3_OnlyOwnEntries ==
    (last.kind \in {"GET", "POST"} /\ last.status = 200) =>
        \A e \in EntriesOf(last.store) : e.updatedBy = JudgeOf(last.session)

\* a view with entries, sent while the table also holds another judge's rows
C3_Witness ==
    /\ last.kind = "GET" /\ last.status = 200
    /\ DOMAIN last.store /= {}
    /\ \E r \in table : r.judge_email /= JudgeOf(last.session)

----------------------------------------------------------------------------
(* C4 *)

\* C4: every persisted sub-score of every row lies in 0..15.
C4_PersistedInRange ==
    \A r \in table : \A i \in 1..6 : SubScores(r)[i] \in 0..15

----------------------------------------------------------------------------
(* C5 *)

\* C5: a POST with a session whose body has neither teamId nor teamName, or no
\* scores, answers 400, starts no handler step on the table and leaves the table
\* as it was; no handler in flight carries such a body.
C5_InvalidRejected ==
    [][/\ \A session \in SignedIn, body \in Incomplete :
              PostStart(FreeSlot, session, body, MaxIntake) =>
                  /\ last'.kind = "POST" /\ last'.status = 400
                  /\ table' = table
                  /\ reqs' = reqs
       /\ \A slot \in Slots :
              reqs'[slot].pc /= "idle" =>
                  /\ reqs'[slot].body.scores.present
                  /\ \/ reqs'[slot].body.teamId \notin {Absent, ""}
                     \/ reqs'[slot].body.teamName \notin {Absent, ""}]_vars

\* the rejection, with rows in the table it left alone
C5_Witness ==
    /\ last.kind = "POST" /\ last.status = 400 /\ last.session.user
    /\ table /= {}

----------------------------------------------------------------------------
(* C6 *)

\* what the table holds: team, judge and the six sub-scores of each row
Held == {<<r.team_id, r.judge_email, SubScores(r)>> : r \in table}

Six(n) == <<n, n, n, n, n, n>>

\* the handler in slot completes, in this step, the save of scores by session
\* for team T1
Saves(slot, session, scores) ==
    /\ Wrote(slot)
    /\ reqs[slot].session = session
    /\ reqs[slot].body.teamId = "T1"
    /\ reqs[slot].body.scores = scores

\* after this step the ranking, whatever the order of the rows read, is the one
\* row of T1 with this total and this judge count
RankedT1(total, count) ==
    \A rows \in Orderings(table') :
        Rankings(rows) =
            <<[teamId |-> "T1", teamName |-> "Alpha", total |-> total,
               judgesCount |-> count]>>

\* the three saves of the scenario, each taken from the state its predecessors
\* leave, with the total expected after the second save
Scenario(second) ==
    \A slot \in Slots :
        /\ (table = {} /\ Saves(slot, SJ1, All5)) => RankedT1(30, 1)
        /\ (Held = {<<"T1", "j1@x.io", Six(5)>>} /\ Saves(slot, SJ2, All10))
               => RankedT1(second, 2)
        /\ (Held = {<<"T1", "j1@x.io", Six(5)>>, <<"T1", "j2@x.io", Six(10)>>}
               /\ Saves(slot, SJ1, All15))
               => RankedT1(150, 2)

\* C6 as stated: j1 saves all-5 for T1, ranking total 30, count 1; j2 saves
\* all-10, total 60, count 2; j1 saves all-15 again, total 150, count 2.
C6_ScenarioAsStated == [][Scenario(60)]_vars

\* C6 amended: j1 saves all-5 for T1, ranking total 30, count 1; j2 saves
\* all-10, total 90, count 2; j1 saves all-15 again, total 150, count 2.
C6_Scenario == [][Scenario(90)]_vars

\* the third save has been applied over the first two (j2's all-10 was the
\* second request, j1's all-15 is the third), and the page shows 150 and 2
C6_Witness ==
    /\ nPosts = 3
    /\ Held = {<<"T1", "j1@x.io", Six(15)>>, <<"T1", "j2@x.io", Six(10)>>}
    /\ \E r \in table : r.judge_email = "j2@x.io" /\ r.updated_at = NowIso(2)
    /\ last.kind = "ADMIN" /\ last.status = 200
    /\ last.rankings =
           <<[teamId |-> "T1", teamName |-> "Alpha", total |-> 150, judgesCount |-> 2]>>

----------------------------------------------------------------------------
(* C7, C8, C9 *)

Groups == {getTeamKey(r) : r \in table}

GroupRows(key) == {r \in table : getTeamKey(r) = key}

Shown == last.kind = "ADMIN" /\ last.status = 200

\* C7: the ranking has exactly one row per team group; its total is the sum of
\* the six sub-scores over the rows of the group, its judge count their number.
C7_OneRowPerGroup ==
    Shown =>
        LET R == last.rankings
        IN /\ Len(R) = Cardinality(Groups)
           /\ {R[i].teamId : i \in 1..Len(R)} = Groups
           /\ \A i \in 1..Len(R) :
                  /\ R[i].total = SumOver(GroupRows(R[i].teamId))
                  /\ R[i].judgesCount = Cardinality(GroupRows(R[i].teamId))

\* a ranking of several groups, one of them with several judges
C7_Witness ==
    /\ Shown
    /\ Len(last.rankings) >= 2
    /\ \E i \in 1..Len(last.rankings) : last.rankings[i].judgesCount >= 2

Figures(R) == {<<R[i].teamId, R[i].total, R[i].judgesCount>> : i \in 1..Len(R)}

\* C8: whatever the order in which the rows are read, each team has the same
\* total and judge count, and each rank holds the same total, so that the order
\* differs among teams of equal total only.
C8_OrderInvariant ==
    Shown =>
        \A rows \in Orderings(table) :
            LET R == Rankings(rows)
            IN /\ Figures(R) = Figures(last.rankings)
               /\ Len(R) = Len(last.rankings)
               /\ \A i \in 1..Len(R) : R[i].total = last.rankings[i].total

\* another order of the rows ranks two teams of equal total the other way round
C8_Witness ==
    /\ Shown
    /\ \E rows \in Orderings(table) :
           \E i \in 1..Len(last.rankings) :
               Rankings(rows)[i].teamId /= last.rankings[i].teamId

\* C9: each row of the ranking has a total at least that of the row after it.
C9_SortedByTotal ==
    Shown =>
        \A i \in 1..(Len(last.rankings) - 1) :
            last.rankings[i].total >= last.rankings[i + 1].total

\* a ranking of three teams of three different totals
C9_Witness ==
    /\ Shown
    /\ Len(last.rankings) = 3
    /\ last.rankings[1].total > last.rankings[2].total
    /\ last.rankings[2].total > last.rankings[3].total

----------------------------------------------------------------------------
(* C10 *)

\* C10: a row changes or disappears only in a step in which a handler of the
\* row's own judge completes an upsert for the row's own team, and a completed
\* upsert leaves its payload in the table: no save of one judge is lost to, or
\* overwritten by, the save of another, under every interleaving.
C10_NoLostSave ==
    [][/\ \A r \in table :
              r \notin table' =>
                  \E slot \in Slots :
                      /\ Wrote(slot)
                      /\ JudgeOf(reqs[slot].session) = r.judge_email
                      /\ Written(slot).team_id = r.team_id
       /\ \A slot \in Slots : Wrote(slot) => Written(slot) \in table']_vars

\* two saves in flight together, of different judges for the same team, both
\* upserted and neither yet answered: the table holds both rows as submitted
C10_Witness ==
    /\ reqs["h1"].pc = "select" /\ reqs["h2"].pc = "select"
    /\ JudgeOf(reqs["h1"].session) /= JudgeOf(reqs["h2"].session)
    /\ Pending("h1").team_id = Pending("h2").team_id
    /\ Pending("h1") \in table /\ Pending("h2") \in table

----------------------------------------------------------------------------
(* Vocabulary of the properties of the file backend *)

\* the handler in slot completes its write of the file in this step
FileWrote(slot) ==
    /\ fileReqs[slot].pc = "write"
    /\ fileReqs'[slot].pc = "done"
    /\ fileReqs'[slot].status = 200

\* the judges with an entry under a team in a store
JudgesOf(store, team) ==
    {Col(priorJudges(store, team)[i], "updatedBy") :
         i \in 1..Len(priorJudges(store, team))}

\* the store the file holds, the empty store if it holds none
Stored(f) == IF f.exists /\ f.data.valid THEN JSONparse(f.data) ELSE EmptyStore

\* the handler in slot has answered a save with status 200
Saved(slot) ==
    /\ fileReqs[slot].pc = "done"
    /\ fileReqs[slot].method = "POST"
    /\ fileReqs[slot].status = 200

----------------------------------------------------------------------------
(* C11 *)

\* C11: a save of the file backend writes the store it read with its own entry
\* merged in, whatever the file has come to hold since that read: after the
\* write the file has, under the team of the save, the judges of the store
\* read and the saving judge, so that the entry another judge wrote between
\* the read and the write is gone from the file, both saves having answered 200.
C11_FileSavesRace ==
    [][\A slot \in Slots :
           FileWrote(slot) =>
               LET r == fileReqs[slot]
               IN JudgesOf(Stored(file'), r.body.teamId)
                      = JudgesOf(r.store, r.body.teamId) \cup {userEmail(r.session)}]_vars

\* two saves of different judges for one team have both answered 200, each
\* having read the file before the other wrote it, and the file holds the
\* entry of one of them only
C11_Witness ==
    /\ Saved("h1") /\ Saved("h2")
    /\ userEmail(fileReqs["h1"].session) /= userEmail(fileReqs["h2"].session)
    /\ fileReqs["h1"].body.teamId = fileReqs["h2"].body.teamId
    /\ JudgesOf(fileReqs["h1"].store, fileReqs["h1"].body.teamId) = {}
    /\ JudgesOf(fileReqs["h2"].store, fileReqs["h1"].body.teamId) = {}
    /\ Cardinality(JudgesOf(Stored(file), fileReqs["h1"].body.teamId)) = 1

----------------------------------------------------------------------------
(* C12, C13 *)

\* the handler in slot takes a step
Steps(slot) == reqs'[slot] /= reqs[slot]

\* the handler in slot answers its request with status 500 in this step
Answers500(slot) ==
    /\ reqs[slot].pc /= "idle"
    /\ reqs'[slot].pc = "idle"
    /\ last'.kind = "POST" /\ last'.status = 500

\* the upsert of the request in slot has been applied to the table
Applied(slot) == reqs[slot].pc = "select"

\* C12: every row of the table after a step is a row of the table before it or
\* the whole payload of an upsert completed in the step, and a save that
\* answers 500 has not applied its upsert to the table.
C12_AllOrNothing ==
    [][/\ \A r \in table' :
              r \in table \/ \E slot \in Slots : Wrote(slot) /\ r = Written(slot)
       /\ \A slot \in Slots : Answers500(slot) => ~Applied(slot)]_vars

\* the first attempt of the request in slot is rejected for the team_name
\* column, and the handler goes on to its second attempt
Retries(slot) ==
    /\ reqs[slot].pc = "upsert"
    /\ reqs'[slot].pc = "retry"
    /\ UnknownColumn(payloadWithName(reqs[slot].session, reqs[slot].body, reqs[slot].now))
    /\ table' = table

\* C13 as stated: a save attempts its upsert once: the step of the attempt
\* writes the row, or ends the request with status 500.
C13_SingleAttempt ==
    [][\A slot \in Slots :
           (reqs[slot].pc = "upsert" /\ Steps(slot)) =>
               Wrote(slot) \/ Answers500(slot)]_vars

\* C13 amended: a save attempts its upsert once, and a second time only when
\* the first attempt was rejected for the unknown team_name column; an attempt
\* that fails for any other reason, and a second attempt that fails, end the
\* request with status 500 and the table as it was. There is no third attempt.
C13_NoRetryButForColumn ==
    [][\A slot \in Slots :
           /\ (reqs[slot].pc = "upsert" /\ Steps(slot)) =>
                  Wrote(slot) \/ Retries(slot) \/ (Answers500(slot) /\ table' = table)
           /\ (reqs[slot].pc = "retry" /\ Steps(slot)) =>
                  Wrote(slot) \/ (Answers500(slot) /\ table' = table)
           /\ (reqs[slot].pc = "select" /\ Steps(slot)) => reqs'[slot].pc = "idle"]_vars

\* a save is at its second attempt while the table holds the row of another
C13_Witness ==
    /\ \E slot \in Slots : reqs[slot].pc = "retry"
    /\ table /= {}

----------------------------------------------------------------------------
(* C14 *)

\* the handler in slot answers its save with status 200 in this step
Answers200(slot) ==
    /\ reqs[slot].pc = "select"
    /\ reqs'[slot].pc = "idle"
    /\ last'.kind = "POST" /\ last'.status = 200

\* the entry carries the six sub-scores and the notes of the request in slot
\* (a request without notes submits the empty string)
Submitted(slot, e) ==
    LET sc == reqs[slot].body.scores
    IN /\ <<e.problemRelevance, e.technicalFeasibility, e.statementAlignment,
             e.creativity, e.presentation, e.googleTechUse>>
              = <<sc.problemRelevance, sc.technicalFeasibility, sc.statementAlignment,
                  sc.creativity, sc.presentation, sc.googleTechUse>>
       /\ e.notes = OrElse(sc.notes, "")

\* the entries of the caller in the record the response has for the saved team
OwnEntries(slot) ==
    LET k == Pending(slot).team_id
    IN IF k \notin DOMAIN last'.store THEN {}
       ELSE {last'.store[k].judges[i] : i \in 1..Len(last'.store[k].judges)}

\* C14 as stated: every save answered with status 200 has, under the key of
\* the saved team, a judges list with an entry of the caller that carries
\* exactly the sub-scores and notes of the request.
C14_ReturnsSubmitted ==
    [][\A slot \in Slots :
           Answers200(slot) =>
               \E e \in OwnEntries(slot) :
                   /\ e.updatedBy = JudgeOf(reqs[slot].session)
                   /\ Submitted(slot, e)]_vars

\* C14 amended: every save answered with status 200 has, under the key of the
\* saved team, a record whose judges list is the one entry of the caller, made
\* from the row the table holds for (team, caller) when the save reads it back:
\* the sub-scores and notes of the request if that row is still the row this
\* save wrote, those of a later save of the same judge for the same team if
\* one was applied between the write and the read.
C14_ReturnsStored ==
    [][\A slot \in Slots :
           Answers200(slot) =>
               LET k == Pending(slot).team_id
                   rows == RowsAt(table, k, JudgeOf(reqs[slot].session))
               IN /\ k \in DOMAIN last'.store
                  /\ \E row \in rows :
                         /\ last'.store[k].judges = <<toEntry(row)>>
                         /\ row = Pending(slot) =>
                                Submitted(slot, last'.store[k].judges[1])]_vars

\* a save has been answered with a view that has an entry of the caller, read
\* from a table that also holds a row of another judge
C14_Witness ==
    /\ last.kind = "POST" /\ last.status = 200
    /\ \E k \in DOMAIN last.store :
           /\ Len(last.store[k].judges) = 1
           /\ last.store[k].judges[1].updatedBy = JudgeOf(last.session)
           /\ last.store[k].judges[1].notes = "raw"
    /\ \E r \in table : r.judge_email /= JudgeOf(last.session)

----------------------------------------------------------------------------
(* C15 *)

----------------------------------------------------------------------------
(* C16 *)

\* the request in slot is a second copy of a request (same session, same
\* body) whose upsert has just been applied: the table holds the row of the
\* first copy
SameRequestApplied(slot) ==
    \E other \in Slots \ {slot} :
        /\ reqs[other].pc = "select"
        /\ reqs[other].session = reqs[slot].session
        /\ reqs[other].body = reqs[slot].body
        /\ Pending(other) \in table

\* a row without its time stamp
Unstamped(r) == [r EXCEPT !.updated_at = ""]

\* C16 as stated: the upsert of a request applied right after the upsert of
\* the same request leaves the table as the first upsert left it.
C16_Idempotent ==
    [][\A slot \in Slots :
           (Wrote(slot) /\ SameRequestApplied(slot)) => table' = table]_vars

\* C16 amended: the upsert of a request applied right after the upsert of the
\* same request leaves the table with the same rows, time stamps aside, and
\* with the same time stamps too when the scores payload carries updatedAt;
\* when it carries none, the row is stamped again with the time of the server.
C16_IdempotentButStamp ==
    [][\A slot \in Slots :
           (Wrote(slot) /\ SameRequestApplied(slot)) =>
               /\ {Unstamped(r) : r \in table'} = {Unstamped(r) : r \in table}
               /\ Cardinality(table') = Cardinality(table)
               /\ reqs[slot].body.scores.updatedAt /= Absent => table' = table]_vars

\* one request has been applied twice in a row, and the table holds the one
\* row of the first application
C16_Witness ==
    /\ reqs["h1"].pc = "select" /\ reqs["h2"].pc = "select"
    /\ reqs["h1"].session = reqs["h2"].session
    /\ reqs["h1"].body = reqs["h2"].body
    /\ reqs["h1"].body.scores.updatedAt /= Absent
    /\ table = {Pending("h1")}

----------------------------------------------------------------------------
(* C17 *)

\* the entry of a team record: the record without its judges list
Top(rec) == [k \in (DOMAIN rec) \ {"judges"} |-> rec[k]]

\* every team record of the file has each judge once in its list, and the
\* last entry of the list as its top-level entry
Merged(f) ==
    \A t \in DOMAIN Stored(f) :
        LET js == Stored(f)[t].judges
        IN /\ \A i, j \in 1..Len(js) : js[i].updatedBy = js[j].updatedBy => i = j
           /\ Len(js) >= 1
           /\ Top(Stored(f)[t]) = js[Len(js)]

\* the entry the save in slot submits, as the file holds it
EntryOf(slot) ==
    StringifyEntry(fileEntry(fileReqs[slot].session, fileReqs[slot].body, fileReqs[slot].now))

\* the judges the save in slot found under its team, and those it leaves
OldJudges(slot) == priorJudges(fileReqs[slot].store, fileReqs[slot].body.teamId)
NewJudges(slot) == Stored(file')[fileReqs[slot].body.teamId].judges

\* what every save leaves: its entry on top of the record of its team, every
\* judge once in every list, the records of the other teams as they were
SaveMerges(slot) ==
    /\ Merged(file')
    /\ Top(Stored(file')[fileReqs[slot].body.teamId]) = EntryOf(slot)
    /\ \A t \in (DOMAIN Stored(file')) \ {fileReqs[slot].body.teamId} :
           t \in DOMAIN fileReqs[slot].store /\ Stored(file')[t] = fileReqs[slot].store[t]

----------------------------------------------------------------------------
(* C18 *)

\* the handler in slot gets a store from the file in this step
FileRead(slot) ==
    /\ fileReqs[slot].pc = "read"
    /\ \/ fileReqs'[slot].pc = "write"
       \/ fileReqs'[slot].pc = "done" /\ fileReqs'[slot].status = 200

\* the store that handler got: the one it goes on with, or the one it answers
StoreRead(slot) ==
    IF fileReqs'[slot].pc = "write" THEN fileReqs'[slot].store ELSE last'.store

----------------------------------------------------------------------------
(* C19 *)

\* the handler in slot takes a step
FileSteps(slot) == fileReqs'[slot] /= fileReqs[slot]

\* the handler in slot ends with status 500 in this step
FileAnswers500(slot) ==
    /\ fileReqs'[slot].pc = "done"
    /\ fileReqs'[slot].status = 500
    /\ last'.status = 500

\* ensureStore returns the empty store to the handler in slot in this step
ReturnsEmpty(slot) ==
    \/ fileReqs'[slot].pc = "write" /\ fileReqs'[slot].store = EmptyStore
    \/ /\ fileReqs'[slot].pc = "done" /\ fileReqs'[slot].status = 200
       /\ last'.kind = "FILE_GET" /\ last'.store = EmptyStore

\* C19: no request ends with the error of the missing file. A read that finds
\* no file goes on to create it, unless the read fails for another reason; the
\* creation leaves the file holding the empty store and returns the empty
\* store, unless it fails itself; and a read that ends with an error leaves
\* the file, or its absence, as it was.
C19_MissingFileInitialises ==
    [][\A slot \in Slots :
           /\ fileReqs'[slot].error /= "ENOENT"
           /\ (fileReqs[slot].pc = "read" /\ FileSteps(slot) /\ ~file.exists) =>
                  /\ file' = file
                  /\ \/ fileReqs'[slot].pc = "init" /\ last' = NoResponse
                     \/ FileAnswers500(slot)
           /\ (fileReqs[slot].pc = "init" /\ FileSteps(slot)) =>
                  \/ file' = FileOf(JSONstringify(EmptyStore)) /\ ReturnsEmpty(slot)
                  \/ FileAnswers500(slot)
           /\ (fileReqs[slot].pc = "read" /\ FileAnswers500(slot)) => file' = file]_vars

\* a read has found no file and has answered with the empty store, leaving a
\* file that holds the empty store; no save has been made
C19_Witness ==
    /\ nPosts = 0
    /\ last.kind = "FILE_GET" /\ last.status = 200 /\ last.store = EmptyStore
    /\ file = FileOf(JSONstringify(EmptyStore))

----------------------------------------------------------------------------
(* C20 *)

----------------------------------------------------------------------------
(* C21 *)

\* C21: the entry a save stores carries the identity of the session that
\* made it (letter case aside), whatever updatedBy the scores payload names,
\* and the record a save writes over is a record of the same identity.
C21_IdentityFromSession ==
    [][\A slot \in Slots :
           FileWrote(slot) =>
               LET r == fileReqs[slot]
                   t == r.body.teamId
               IN /\ toLowerCase(Stored(file')[t].updatedBy) = JudgeOf(r.session)
                  /\ t \in DOMAIN r.store =>
                         toLowerCase(r.store[t].updatedBy) = JudgeOf(r.session)]_vars

----------------------------------------------------------------------------
(* C22 *)

\* the rows the saves of a session have left in the table
SavedBy(session) == {r \in table : r.judge_email = userEmailLower(session)}

\* C22: a GET that answers 200 to a signed-in session returns every record the
\* saves of that session have stored, whether the session carries an email in
\* any letter case, a name only, or neither.
C22_ReadYourWrites ==
    [][\A session \in SessionsIn :
           (/\ last'.kind = "GET"
            /\ last'.session = session
            /\ last'.status = 200)
               => \A r \in SavedBy(session) : toEntry(r) \in EntriesOf(last'.store)]_vars

----------------------------------------------------------------------------
(* C25 *)

\* the team a request names: its teamId when it gives one, its teamName otherwise
NamedTeam(body) == IF body.teamId \in {Absent, ""} THEN body.teamName ELSE body.teamId

\* C25: a write is stored under the teamId of its request when the request
\* gives one and under its teamName otherwise, also when the teamId is the
\* empty string; so after the write the table holds the row of the write
\* under that team and the judge of the session.
C25_StoredUnderNamedTeam ==
    [][\A slot \in Slots :
           Wrote(slot) =>
               RowsAt(table', NamedTeam(reqs[slot].body), JudgeOf(reqs[slot].session))
                   = {Written(slot)}]_vars

----------------------------------------------------------------------------
(* C27 *)

\* the payload of the second attempt of the request in slot
RetryPayload(slot) == payloadBase(reqs[slot].session, reqs[slot].body, reqs[slot].now)

\* C27: a save whose first upsert was rejected for the unknown team_name
\* column makes its second attempt with a payload that has no team_name,
\* whether or not the request carries a teamName.
C27_RetryOmitsTeamName ==
    \A slot \in Slots :
        reqs[slot].pc = "retry" => RetryPayload(slot).team_name = Absent

----------------------------------------------------------------------------
(* C23 *)

\* C23: when a save of the dashboard is answered with status 200 and the local
\* store is replaced by the response, currentEntry of the team the save was
\* for carries the sub-scores and the notes just saved, whoever is signed in.
C23_ShowsSavedEntry ==
    [][\A slot \in Slots :
           (/\ Answers200(slot)
            /\ dash.isSaving
            /\ dash'.activeTeamId = reqs[slot].body.teamId)
               => Submitted(slot, currentEntry(dash'))]_vars

----------------------------------------------------------------------------
(* C24 *)

\* the step is an edit of the score form
Edits == dash'.nEdits = dash.nEdits + 1

\* the entry the edit put into the local store
EditedEntry(d) ==
    LET judges == d.store[d.activeTeamId].judges
    IN judges[Len(judges)]

\* C24: after an edit of the score form (setField or setNotes) the judges list
\* of every team of the local store holds at most one entry per judge
\* identity, and currentEntry is the edited entry; with a judge signed in and
\* with nobody signed in.
C24_OneEntryAndVisible ==
    [][Edits =>
           /\ \A t \in DOMAIN dash'.store :
                  LET judges == dash'.store[t].judges
                  IN \A i, j \in 1..Len(judges) :
                         judges[i].updatedBy = judges[j].updatedBy => i = j
           /\ currentEntry(dash') = EditedEntry(dash')]_vars

----------------------------------------------------------------------------
(* C26 *)

\* the step answers the save of the dashboard
SaveAnswered == dash.isSaving /\ last'.kind = "POST"

\* C26: when a save is answered with status 200 the local store becomes the
\* response, whole: it holds the teams the judge has a row for in the table
\* and no other; when a save fails the local store stays as it was and the
\* error message is set.
C26_ReplacesOrKeeps ==
    [][SaveAnswered =>
           IF last'.status = 200
           THEN /\ dash'.store = last'.store
                /\ \A t \in DOMAIN dash'.store :
                       RowsAt(table', t, JudgeOf(dash.session)) /= {}
           ELSE /\ dash'.store = dash.store
                /\ dash'.error = MessageOf(last')
                /\ dash'.error /= Null]_vars

\* the first save of the judge j2 has been answered 200 and the local store is
\* the response, a single team with its sub-scores zero: the edit the judge
\* made of the form is no longer in it
C26_Witness ==
    /\ dash.session = SJ2
    /\ ~dash.isSaving /\ dash.error = Null /\ ~dash.loaded
    /\ dash.nEdits >= 1
    /\ nPosts = 1 /\ table /= {}
    /\ DOMAIN dash.store = {"T1"}
    /\ dash.store["T1"].creativity = 0 /\ dash.store["T1"].notes = ""

====
